---------------------------- MODULE Spec2Model ----------------------------
(***************************************************************************)
(* Model of the dataset glue (mimikit/kit/db_dataset.py) and of the shape  *)
(* arithmetic of the WaveNet stack (mimikit/networks/wavenet.py).          *)
(*                                                                         *)
(* Conventions.                                                            *)
(*  - A split entry is a record [t, v]: t is "float", "int" or "None".     *)
(*    A float entry stands for the real number v * u for one fixed unit    *)
(*    u > 0; split() only uses the ratios x / sum(splits), so u cancels.   *)
(*    Floats are modelled as exact rationals (no IEEE rounding).           *)
(*  - A dataset value is a record [kind, indices]: None, the whole db, or  *)
(*    a torch Subset holding the (0-based) indices it selects.             *)
(***************************************************************************)
EXTENDS Integers, Sequences, FiniteSets, TLC

VARIABLES
    \* DBDataset.split / DBDataModule
    splits,             \* the splits argument / DBDataModule.splits
    splits_is_none,     \* DBDataModule.splits is None
    N,                  \* len(db)
    pc,                 \* "call", "returned", or the exception raised
    made,               \* the list returned by random_split
    sets,               \* the tuple returned by split
    has_prepared_data, has_setup_fit, has_setup_test,
    train_ds, val_ds, test_ds,
    loader,             \* what the last *_dataloader call returned
    events,             \* history: calls of db.prepare_dataset and db.split
    parts,              \* history: the tuples returned by db.split
    \* WNNetwork / WaveNetLayer
    n_layers, kernel_size, pad_input, accum_outputs,
    layers, receptive_field, shift,
    call                \* the last method call on the network and its result

splitVars == <<splits, splits_is_none, N, pc, made, sets>>
dmVars == <<has_prepared_data, has_setup_fit, has_setup_test,
            train_ds, val_ds, test_ds, loader, events, parts>>
wnVars == <<n_layers, kernel_size, pad_input, accum_outputs,
            layers, receptive_field, shift, call>>
vars == <<splitVars, dmVars, wnVars>>

----------------------------------------------------------------------------
(* Bounds of the model *)

MaxLen == 3         \* longest splits sequence
MaxVal == 2         \* largest value of a split entry
MaxN == 4           \* largest dataset length
MaxScale == 3       \* largest common factor applied to the proportions

----------------------------------------------------------------------------
(* Values *)

None == [t |-> "None", v |-> 0]
FloatEntry(n) == [t |-> "float", v |-> n]
IntEntry(n) == [t |-> "int", v |-> n]

NoneDS == [kind |-> "None", indices |-> <<>>]
DB == [kind |-> "db", indices |-> <<>>]
Subset(ix) == [kind |-> "Subset", indices |-> ix]

RECURSIVE Sum(_)
Sum(s) == IF s = <<>> THEN 0 ELSE Head(s) + Sum(Tail(s))

Values(s) == [i \in 1..Len(s) |-> s[i].v]

\* The splits sequences of the model: every entry None, or all the others
\* floats, or all the others ints.
SplitInputs(maxLen, maxVal) ==
    UNION { [1..n -> {None} \cup {FloatEntry(x) : x \in 0..maxVal}] : n \in 0..maxLen }
    \cup
    UNION { [1..n -> {None} \cup {IntEntry(x) : x \in 0..maxVal}] : n \in 0..maxLen }

----------------------------------------------------------------------------
(* DBDataset.split *)

IsNone(x) == x.t = "None"
HasNone(s) == \E i \in 1..Len(s) : IsNone(s[i])

\* nones = [i for i, x in zip(range(len(splits)), splits) if x is None]
RECURSIVE NonesFrom(_, _)
NonesFrom(s, i) ==
    IF i > Len(s) THEN <<>>
    ELSE (IF IsNone(s[i]) THEN <<i - 1>> ELSE <<>>) \o NonesFrom(s, i + 1)
Nones(s) == NonesFrom(s, 1)

\* splits = [x for x in splits if x is not None]
NotNone(x) == ~IsNone(x)
DropNones(s) == SelectSeq(s, NotNone)

\* all(type(x) is float for x in splits)
AllFloat(s) == \A i \in 1..Len(s) : s[i].t = "float"

\* int(N * x) for x = s[i] / sum(s), rounded up instead of truncated
AsIntsCeil(s, n) ==
    [i \in 1..(Len(s) - 1) |-> (n * s[i].v + Sum(Values(s)) - 1) \div Sum(Values(s))]

\* splits = [x / sum(splits) for x in splits]
\* as_ints = [int(N * x) for x in splits[:-1]]
AsInts(s, n) ==
    [i \in 1..(Len(s) - 1) |-> (n * s[i].v) \div Sum(Values(s))]

\* as_ints += [N - sum(as_ints)]
FloatLengths(s, n) == AsInts(s, n) \o <<n - Sum(AsInts(s, n))>>

\* if N - sum(as_ints) == 0: raise ValueError; the check left out
LastIsZeroNever(s, n) == FALSE

LastIsZero(s, n) == n - Sum(AsInts(s, n)) = 0

\* random_split(dataset, lengths): the subsets cut, in order, from a random
\* permutation of the indices; p is a permutation of 1..sum(lengths).
RECURSIVE Cut(_, _, _)
Cut(p, lengths, offset) ==
    IF lengths = <<>> THEN <<>>
    ELSE <<Subset([i \in 1..Head(lengths) |-> p[offset + i] - 1])>>
         \o Cut(p, Tail(lengths), offset + Head(lengths))

\* sets = [None if i in nones else sets.pop() for i in range(len(sets + nones))]
RECURSIVE InterleavePopLast(_, _, _, _)
InterleavePopLast(i, total, rest, nones) ==
    IF i = total THEN <<>>
    ELSE IF \E k \in 1..Len(nones) : nones[k] = i
         THEN <<NoneDS>> \o InterleavePopLast(i + 1, total, rest, nones)
         ELSE <<rest[Len(rest)]>>
              \o InterleavePopLast(i + 1, total, SubSeq(rest, 1, Len(rest) - 1), nones)

\* sets = [None if i in nones else sets.pop(0) for i in range(len(sets + nones))]
RECURSIVE Interleave(_, _, _, _)
Interleave(i, total, rest, nones) ==
    IF i = total THEN <<>>
    ELSE IF \E k \in 1..Len(nones) : nones[k] = i
         THEN <<NoneDS>> \o Interleave(i + 1, total, rest, nones)
         ELSE <<Head(rest)>> \o Interleave(i + 1, total, Tail(rest), nones)

\* any(nones): some index in the list is truthy (non-zero)
AnyTruthy(nones) == \E k \in 1..Len(nones) : nones[k] # 0

Raised(what) == [status |-> what, made |-> <<>>, sets |-> <<>>]

\* lines 92-95: random_split, then the Nones put back
RandomSplitAndFill(lengths, n, nones) ==
    IF Sum(lengths) # n
    THEN {Raised("ValueError: Sum of input lengths does not equal the length of the input dataset!")}
    ELSE { [status |-> "returned",
            made |-> Cut(p, lengths, 0),
            sets |-> IF AnyTruthy(nones)
                     THEN Interleave(0, Len(lengths) + Len(nones), Cut(p, lengths, 0), nones)
                     ELSE Cut(p, lengths, 0)]
           : p \in Permutations(1..n) }

\* lines 81-91: the proportions turned into lengths
FloatsToLengths(s, n, nones) ==
    IF Len(s) > 0 /\ Sum(Values(s)) = 0
    THEN {Raised("ZeroDivisionError")}
    ELSE IF LastIsZero(s, n)
    THEN {Raised("ValueError: the last split rounded to zero element")}
    ELSE RandomSplitAndFill(FloatLengths(s, n), n, nones)

\* DBDataset.split(splits) on a dataset of length n: the possible outcomes
SplitOutcomes(s, n) ==
    IF HasNone(s) /\ IsNone(s[1])
    THEN {Raised("ValueError: the train-set's split cannot be None")}
    ELSE LET nones == IF HasNone(s) THEN Nones(s) ELSE <<>>
             s1 == IF HasNone(s) THEN DropNones(s) ELSE s
         IN  IF AllFloat(s1)
             THEN FloatsToLengths(s1, n, nones)
             ELSE RandomSplitAndFill(Values(s1), n, nones)

----------------------------------------------------------------------------
(* Idle values of the variables a specification does not use *)

DMIdle ==
    /\ has_prepared_data = FALSE /\ has_setup_fit = FALSE /\ has_setup_test = FALSE
    /\ train_ds = NoneDS /\ val_ds = NoneDS /\ test_ds = NoneDS
    /\ loader = [kind |-> "init", ds |-> NoneDS, shuffle |-> "-"]
    /\ events = <<>> /\ parts = <<>>

WNIdle ==
    /\ n_layers = <<>> /\ kernel_size = 2 /\ pad_input = 0 /\ accum_outputs = 0
    /\ layers = <<>> /\ receptive_field = 0 /\ shift = 0
    /\ call = [op |-> "none"]

----------------------------------------------------------------------------
(* Specification of DBDataset.split: one call on every input of the model *)

InitSplit ==
    /\ splits \in SplitInputs(MaxLen, MaxVal)
    /\ splits_is_none = FALSE
    /\ N \in 0..MaxN
    /\ pc = "call"
    /\ made = <<>>
    /\ sets = <<>>
    /\ DMIdle
    /\ WNIdle

split ==
    /\ pc = "call"
    /\ \E r \in SplitOutcomes(splits, N) :
        /\ pc' = r.status
        /\ made' = r.made
        /\ sets' = r.sets
    /\ UNCHANGED <<splits, splits_is_none, N, dmVars, wnVars>>

NextSplit == split

SpecSplit == InitSplit /\ [][NextSplit]_vars

----------------------------------------------------------------------------
(* DBDataModule: lazy preparation and the three loaders.                   *)
(* pytorch_lightning sets has_prepared_data / has_setup_<stage> when the   *)
(* hook of that name has run.  An exception raised by db.split is not      *)
(* caught anywhere: the run ends (pc holds the exception).                 *)

DMMaxLen == 3       \* longest DBDataModule.splits
DMMaxVal == 1       \* largest value of an entry of DBDataModule.splits
DMMaxN == 3         \* largest len(db) of a datamodule

DataLoader(ds, kind, shuffle) == [kind |-> kind, ds |-> ds, shuffle |-> shuffle]
NoLoader == [kind |-> "None", ds |-> NoneDS, shuffle |-> "-"]

\* has_val = self.splits is not None and len(self.splits) >= 2 and self.splits[1] is not None
has_val == ~splits_is_none /\ Len(splits) >= 2 /\ ~IsNone(splits[2])

\* has_test = self.splits is not None and len(self.splits) >= 3 and self.splits[2] is not None
has_test == ~splits_is_none /\ Len(splits) >= 3 /\ ~IsNone(splits[3])

\* the guard left out: setup("fit") on every loader call
NeedsSetupFitAlways == TRUE

\* if not self.has_setup_fit: self.setup("fit")
NeedsSetupFit == ~has_setup_fit

\* if not self.has_prepared_data: self.prepare_data()
NeedsPrepare == ~has_prepared_data

\* prepare_data: self.db.prepare_dataset(model=self.model, datamodule=self)
Prepared(ev) == IF NeedsPrepare THEN Append(ev, "prepare_dataset") ELSE ev

\* setup("fit"): sets = (self.db, ) if not self.splits else self.db.split(self.splits)
\* (moving the db to the gpu does not change what the sets hold)
SetupFitOutcomes ==
    IF splits_is_none \/ splits = <<>>
    THEN {[status |-> "returned", sets |-> <<DB>>, split_called |-> FALSE]}
    ELSE {[status |-> r.status, sets |-> r.sets, split_called |-> TRUE]
          : r \in SplitOutcomes(splits, N)}

\* for ds, attr in zip(sets, ["train_ds", "val_ds", "test_ds"]): setattr(self, attr, ds)
Zipped(old, s, k) == IF k <= Len(s) THEN s[k] ELSE old

\* The common part of train_dataloader and val_dataloader: prepare_data and
\* setup("fit") when needed, then the loader over the attribute asked for.
FitThenServe(kind, shuffle) ==
    /\ has_prepared_data' = TRUE
    /\ UNCHANGED <<has_setup_test, splits, splits_is_none, N, made, sets, wnVars>>
    /\ IF NeedsSetupFit
       THEN \E o \in SetupFitOutcomes :
              LET ev == IF o.split_called
                        THEN Append(Prepared(events), "split")
                        ELSE Prepared(events)
              IN  /\ events' = ev
                  /\ IF o.status = "returned"
                     THEN /\ train_ds' = Zipped(train_ds, o.sets, 1)
                          /\ val_ds' = Zipped(val_ds, o.sets, 2)
                          /\ test_ds' = Zipped(test_ds, o.sets, 3)
                          /\ parts' = IF o.split_called THEN Append(parts, o.sets) ELSE parts
                          /\ has_setup_fit' = TRUE
                          /\ pc' = pc
                          /\ loader' = DataLoader(IF kind = "train" THEN train_ds' ELSE val_ds',
                                                  kind, shuffle)
                     ELSE /\ pc' = o.status
                          /\ UNCHANGED <<train_ds, val_ds, test_ds, parts, has_setup_fit, loader>>
       ELSE /\ events' = Prepared(events)
            /\ loader' = DataLoader(IF kind = "train" THEN train_ds ELSE val_ds, kind, shuffle)
            /\ UNCHANGED <<train_ds, val_ds, test_ds, parts, has_setup_fit, pc>>

train_dataloader ==
    /\ pc = "running"
    /\ FitThenServe("train", "loader_kwargs")

val_dataloader ==
    /\ pc = "running"
    /\ \E shuffle \in {"False", "True"} :
        IF ~has_val
        THEN /\ loader' = NoLoader
             /\ UNCHANGED <<splitVars, wnVars, has_prepared_data, has_setup_fit,
                            has_setup_test, train_ds, val_ds, test_ds, events, parts>>
        ELSE FitThenServe("val", shuffle)

\* setup("test") changes nothing: setup only acts when stage == "fit"
test_dataloader ==
    /\ pc = "running"
    /\ \E shuffle \in {"False", "True"} :
        IF ~has_test
        THEN /\ loader' = NoLoader
             /\ UNCHANGED <<splitVars, wnVars, has_prepared_data, has_setup_fit,
                            has_setup_test, train_ds, val_ds, test_ds, events, parts>>
        ELSE /\ has_prepared_data' = TRUE
             /\ events' = Prepared(events)
             /\ has_setup_test' = TRUE
             /\ loader' = DataLoader(test_ds, "test", shuffle)
             /\ UNCHANGED <<splitVars, wnVars, has_setup_fit, train_ds, val_ds,
                            test_ds, parts>>

InitDM ==
    /\ \/ splits_is_none = FALSE /\ splits \in SplitInputs(DMMaxLen, DMMaxVal)
       \/ splits_is_none = TRUE /\ splits = <<>>
    /\ N \in 0..DMMaxN
    /\ pc = "running"
    /\ made = <<>>
    /\ sets = <<>>
    /\ DMIdle
    /\ WNIdle

NextDM == train_dataloader \/ val_dataloader \/ test_dataloader

SpecDM == InitDM /\ [][NextDM]_vars

----------------------------------------------------------------------------
(* WaveNetLayer: a layer is its configuration; the channel dimensions      *)
(* (gate_dim, residuals_dim, skip_dim, ...) do not enter the arithmetic of *)
(* the time axis and are left out.  Only time lengths of tensors are kept. *)

MaxBlocks == 2      \* most blocks in n_layers
MaxBlock == 3       \* largest block size
MaxK == 3           \* largest kernel_size
MaxInputLen == 8    \* longest input

stride == 1

PadInputs == {-1, 0, 1}
AccumOutputs == {-1, 0, 1}

WaveNetLayer(i, k, pad, acc) ==
    [layer_i |-> i, kernel_size |-> k, pad_input |-> pad, accum_outputs |-> acc]

RECURSIVE Pow(_, _)
Pow(b, e) == IF e = 0 THEN 1 ELSE b * Pow(b, e - 1)

Abs(x) == IF x < 0 THEN -x ELSE x

\* dilation = property(lambda self: self.kernel_size ** self.layer_i)
dilation(l) == Pow(l.kernel_size, l.layer_i)

\* (self.kernel_size - 1) * self.dilation if self.pad_input == 0 else 0
shift_diff(l) == IF l.pad_input = 0 THEN (l.kernel_size - 1) * dilation(l) ELSE 0

\* self.pad_input * (self.kernel_size - 1) * self.dilation if self.pad_input else 0
input_padding(l) ==
    IF l.pad_input # 0 THEN l.pad_input * (l.kernel_size - 1) * dilation(l) ELSE 0

\* WaveNetLayer.receptive_field: self.kernel_size * self.dilation
layer_receptive_field(l) == l.kernel_size * dilation(l)

\* WaveNetLayer.output_length
output_length(l, input_length) ==
    IF l.pad_input # 0
    THEN input_length
    ELSE LET numerator == input_length - dilation(l) * (l.kernel_size - 1) - 1
         IN  1 + (numerator \div stride)

\* Python's x[start:stop] on a sequence of length len: the length of the result
Clamp(i, len) == IF i < 0 THEN (IF i + len < 0 THEN 0 ELSE i + len)
                 ELSE (IF i > len THEN len ELSE i)
SliceLen(slc, len) ==
    LET start == IF slc.has_start THEN Clamp(slc.start, len) ELSE 0
        stop == IF slc.has_stop THEN Clamp(slc.stop, len) ELSE len
    IN  IF stop > start THEN stop - start ELSE 0
SliceFrom(a) == [has_start |-> TRUE, start |-> a, has_stop |-> FALSE, stop |-> 0]
SliceTo(b) == [has_start |-> FALSE, start |-> 0, has_stop |-> TRUE, stop |-> b]
SliceAll == [has_start |-> FALSE, start |-> 0, has_stop |-> FALSE, stop |-> 0]

\* WaveNetLayer.forward, lines 106-112: the slice taken from the input
forward_slc(l, x_len) ==
    IF l.pad_input = 0
    THEN LET cause == IF x_len > l.kernel_size THEN shift_diff(l) ELSE l.kernel_size - 1
         IN  IF l.accum_outputs <= 0 THEN SliceFrom(cause) ELSE SliceTo(-cause)
    ELSE SliceAll

\* padder(x): Identity, or CausalPad((0, 0, self.input_padding)) on the time axis
padded_len(l, x_len) ==
    IF l.pad_input = 0 THEN x_len ELSE x_len + Abs(input_padding(l))

\* nn.Conv1d(kernel_size, dilation, stride): the output's time length
conv_len(l, in_len) == ((in_len - dilation(l) * (l.kernel_size - 1) - 1) \div stride) + 1

----------------------------------------------------------------------------
(* WNNetwork *)

\* layers_ with one running index over all the blocks
layers_running(nl, k, pad, acc) ==
    [i \in 1..Sum(nl) |-> WaveNetLayer(i - 1, k, pad, acc)]

\* WaveNetLayer(i, ...) for block in self.n_layers for i in range(block)
RECURSIVE layers_(_, _, _, _)
layers_(nl, k, pad, acc) ==
    IF nl = <<>> THEN <<>>
    ELSE [i \in 1..Head(nl) |-> WaveNetLayer(i - 1, k, pad, acc)]
         \o layers_(Tail(nl), k, pad, acc)

\* the loop of __post_init__ without the "- 1" at the block boundaries
RECURSIVE rf_loop_no_overlap(_, _)
rf_loop_no_overlap(ls, i) ==
    IF i > Len(ls) THEN 0
    ELSE (IF i = Len(ls) THEN layer_receptive_field(ls[i])
          ELSE IF ls[i + 1].layer_i = 0 THEN layer_receptive_field(ls[i])
          ELSE 0)
         + rf_loop_no_overlap(ls, i + 1)

\* __post_init__, lines 189-195; i is the 1-based position in self.layers
RECURSIVE rf_loop(_, _)
rf_loop(ls, i) ==
    IF i > Len(ls) THEN 0
    ELSE (IF i = Len(ls) THEN layer_receptive_field(ls[i])
          ELSE IF ls[i + 1].layer_i = 0 THEN layer_receptive_field(ls[i]) - 1
          ELSE 0)
         + rf_loop(ls, i + 1)

\* __post_init__, lines 197-202, without the "+ 1" of the last branch
shift_no_plus_one(ls, pad, rf) ==
    IF pad = 1 THEN 1
    ELSE IF pad = -1 THEN rf
    ELSE Sum([i \in 1..Len(ls) |-> shift_diff(ls[i])])

\* __post_init__, lines 197-202
shift_of(ls, pad, rf) ==
    IF pad = 1 THEN 1
    ELSE IF pad = -1 THEN rf
    ELSE Sum([i \in 1..Len(ls) |-> shift_diff(ls[i])]) + 1

\* all_output_lengths where every layer is given the network's input
lengths_not_chained(ls, input_length) ==
    [i \in 1..Len(ls) |-> output_length(ls[i], input_length)]

\* WNNetwork.all_output_lengths
RECURSIVE all_output_lengths(_, _)
all_output_lengths(ls, input_length) ==
    IF ls = <<>> THEN <<>>
    ELSE <<output_length(Head(ls), input_length)>>
         \o all_output_lengths(Tail(ls), output_length(Head(ls), input_length))

NLayersInputs ==
    UNION { [1..b -> 0..MaxBlock] : b \in 0..MaxBlocks }

InitWN ==
    /\ n_layers \in NLayersInputs
    /\ kernel_size \in 1..MaxK
    /\ pad_input \in PadInputs
    /\ accum_outputs \in AccumOutputs
    /\ layers = <<>>
    /\ receptive_field = 0
    /\ shift = 0
    /\ call = [op |-> "none"]
    /\ pc = "new"
    /\ splits = <<>> /\ splits_is_none = FALSE /\ N = 0 /\ made = <<>> /\ sets = <<>>
    /\ DMIdle

\* WNNetwork.__post_init__
post_init ==
    /\ pc = "new"
    /\ layers' = layers_(n_layers, kernel_size, pad_input, accum_outputs)
    /\ receptive_field' = rf_loop(layers', 1)
    /\ shift' = shift_of(layers', pad_input, receptive_field')
    /\ pc' = "built"
    /\ UNCHANGED <<n_layers, kernel_size, pad_input, accum_outputs, call,
                   splits, splits_is_none, N, made, sets, dmVars>>

\* WNNetwork.all_output_lengths(input_length)
call_all_output_lengths ==
    /\ pc = "built"
    /\ call.op = "none"
    /\ \E input_length \in 0..MaxInputLen :
        call' = [op |-> "all_output_lengths", input_length |-> input_length,
                 lengths |-> all_output_lengths(layers, input_length)]
    /\ UNCHANGED <<n_layers, kernel_size, pad_input, accum_outputs, layers,
                   receptive_field, shift, splitVars, dmVars>>

\* WaveNetLayer.forward of layer number i on an input of time length x_len:
\* the lengths of y = gcu(padder(x)) and of x[:, :, slc]
call_forward ==
    /\ pc = "built"
    /\ call.op = "none"
    /\ \E i \in 1..Len(layers), x_len \in 0..MaxInputLen :
        LET l == layers[i]
            y_len == conv_len(l, padded_len(l, x_len))
        IN  call' = [op |-> "forward", layer |-> i, x_len |-> x_len,
                     conv_valid |-> y_len >= 1,
                     y_len |-> y_len,
                     slc_len |-> SliceLen(forward_slc(l, x_len), x_len)]
    /\ UNCHANGED <<n_layers, kernel_size, pad_input, accum_outputs, layers,
                   receptive_field, shift, splitVars, dmVars>>

\* the caller has taken the result
return ==
    /\ call.op # "none"
    /\ call' = [op |-> "none"]
    /\ UNCHANGED <<n_layers, kernel_size, pad_input, accum_outputs, layers,
                   receptive_field, shift, splitVars, dmVars>>

NextWN == post_init \/ call_all_output_lengths \/ call_forward \/ return

SpecWN == InitWN /\ [][NextWN]_vars

----------------------------------------------------------------------------
(* Properties of DBDataset.split (checked under SpecSplit) *)

Sizes(ss) == [i \in 1..Len(ss) |-> Len(ss[i].indices)]
Indices(ds) == {ds.indices[i] : i \in 1..Len(ds.indices)}
Disjoint(a, b) == Indices(a) \cap Indices(b) = {}

\* the subsets of ss hold every index 0..n-1 exactly once
Partitions(ss, n) ==
    /\ Sum(Sizes(ss)) = n
    /\ UNION {Indices(ss[i]) : i \in 1..Len(ss)} = 0..(n - 1)
    /\ \A i, j \in 1..Len(ss) : i # j => Disjoint(ss[i], ss[j])

PositiveFloats(s) == \A i \in 1..Len(s) : s[i].t = "float" /\ s[i].v >= 1
Scaled(s, c) == [i \in 1..Len(s) |-> FloatEntry(c * s[i].v)]

AskedSize(d, k, n) ==
    IF AllFloat(d)
    THEN (IF k < Len(d) THEN (n * d[k].v) \div Sum(Values(d))
          ELSE n - Sum([i \in 1..(Len(d) - 1) |-> (n * d[i].v) \div Sum(Values(d))]))
    ELSE d[k].v

IsSubset(ds) == ds.kind = "Subset"

\* C2: with None at positions other than the first, the returned tuple is as
\* long as the input, holds None exactly where the input does, and holds at
\* the other positions, in their order, the subsets made for the non-None
\* entries.
C2_NonesKeepTheirPlaces ==
    (pc = "returned" /\ HasNone(splits) /\ ~IsNone(splits[1])) =>
        /\ Len(sets) = Len(splits)
        /\ \A i \in 1..Len(splits) : (sets[i] = NoneDS) <=> IsNone(splits[i])
        /\ SelectSeq(sets, IsSubset) = made
        /\ Len(made) = Len(DropNones(splits))
        /\ \A k \in 1..Len(made) :
              Len(made[k].indices) = AskedSize(DropNones(splits), k, N)

\* a None between two subsets that differ
C2_Witness ==
    /\ pc = "returned" /\ Len(splits) = 3 /\ IsNone(splits[2])
    /\ Len(made) = 2 /\ made[1] # made[2]
    /\ sets[1] = made[1] /\ sets[3] = made[2]

----------------------------------------------------------------------------
(* Properties of DBDataModule (checked under SpecDM) *)

\* db.split(self.splits) can return on this db
SplitCanReturn == \E r \in SplitOutcomes(splits, N) : r.status = "returned"

\* C3: when splits has a non-None third entry (and db.split(splits) can
\* return), the loader test_dataloader returns is over the third subset made
\* by db.split(splits), not over None, whatever loader calls came before.
C3_TestLoaderServesThirdSubset ==
    (loader.kind = "test" /\ SplitCanReturn) =>
        /\ loader.ds # NoneDS
        /\ Len(parts) >= 1
        /\ loader.ds = parts[Len(parts)][3]

Count(ev, what) == Cardinality({i \in 1..Len(ev) : ev[i] = what})

C9_State ==
    has_val =>
        /\ Count(events, "split") <= 1
        /\ \A i \in 1..Len(events) :
              events[i] = "split" => \E j \in 1..(i - 1) : events[j] = "prepare_dataset"
        /\ Len(parts) <= 1
        /\ loader.kind \in {"train", "val"} =>
              /\ Len(parts) = 1
              /\ train_ds = parts[1][1]
              /\ val_ds = parts[1][2]
              /\ Disjoint(train_ds, val_ds)
              /\ loader.ds = IF loader.kind = "train" THEN train_ds ELSE val_ds

C9_Step ==
    (has_val /\ has_setup_fit) => (train_ds' = train_ds /\ val_ds' = val_ds)

\* C9: on a datamodule with a validation split, db.prepare_dataset runs
\* before the first split, db.split is called at most once, train_ds and
\* val_ds are disjoint subsets of one partition, and no later loader call
\* replaces them.
C9_PreparedOnceSplitOnce == [](C9_State) /\ [][C9_Step]_vars

\* the validation loader served after the test and the train loaders
C9_Witness ==
    /\ has_val /\ loader.kind = "val" /\ loader.shuffle = "True"
    /\ has_setup_test
    /\ events = <<"prepare_dataset", "split">>
    /\ Len(train_ds.indices) >= 1 /\ Len(val_ds.indices) >= 1

----------------------------------------------------------------------------
(* Properties of WNNetwork and WaveNetLayer (checked under SpecWN) *)

\* 0-based position of the first layer of block b
Offset(nl, b) == Sum(SubSeq(nl, 1, b - 1))

\* sum over the layers j = 0 .. size-1 of one block of (k - 1) * k^j
RECURSIVE BlockSpan(_, _)
BlockSpan(k, size) ==
    IF size = 0 THEN 0 ELSE (k - 1) * Pow(k, size - 1) + BlockSpan(k, size - 1)

NonEmptyBlocks == Len(n_layers) >= 1 /\ \A b \in 1..Len(n_layers) : n_layers[b] >= 1

\* C4: for a non-empty configuration (every block size >= 1, kernel_size
\* >= 2) receptive_field is 1 + the sum over all layers of
\* (kernel_size - 1) * dilation, which is the sum over the blocks of
\* kernel_size^block_size minus (number of blocks - 1).
C4_ReceptiveField ==
    (pc = "built" /\ NonEmptyBlocks /\ kernel_size >= 2) =>
        /\ receptive_field
             = 1 + Sum([b \in 1..Len(n_layers) |-> BlockSpan(kernel_size, n_layers[b])])
        /\ receptive_field
             = Sum([b \in 1..Len(n_layers) |-> Pow(kernel_size, n_layers[b])])
               - (Len(n_layers) - 1)

\* two blocks of different sizes
C4_Witness ==
    /\ pc = "built" /\ kernel_size >= 2 /\ NonEmptyBlocks
    /\ Len(n_layers) = 2 /\ n_layers[1] >= 2 /\ n_layers[2] # n_layers[1]
    /\ receptive_field > kernel_size

\* C5: layers_ builds sum(n_layers) layers; the index restarts at 0 with
\* every block, so the j-th layer of a block has dilation kernel_size^j and
\* receptive field kernel_size^(j+1).
C5_LayerIndexRestarts ==
    (pc = "built") =>
        /\ Len(layers) = Sum(n_layers)
        /\ \A b \in 1..Len(n_layers) : \A j \in 0..(n_layers[b] - 1) :
              LET l == layers[Offset(n_layers, b) + j + 1]
              IN  /\ l.layer_i = j
                  /\ l.kernel_size = kernel_size
                  /\ dilation(l) = Pow(kernel_size, j)
                  /\ layer_receptive_field(l) = Pow(kernel_size, j + 1)

\* a second block of at least two layers
C5_Witness ==
    /\ pc = "built" /\ Len(n_layers) = 2 /\ n_layers[1] >= 1 /\ n_layers[2] >= 2
    /\ layers[n_layers[1] + 1].layer_i = 0
    /\ layers[n_layers[1] + 2].layer_i = 1

\* C6: a padded layer keeps the length, an unpadded layer shortens it by
\* (kernel_size - 1) * dilation; so all_output_lengths(L) never increases
\* along the stack, ends at L - receptive_field + 1 without padding, and is
\* L everywhere with padding.
C6_OutputLengths ==
    (call.op = "all_output_lengths") =>
        LET L == call.input_length
            out == call.lengths
            before(i) == IF i = 1 THEN L ELSE out[i - 1]
        IN  /\ Len(out) = Len(layers)
            /\ \A i \in 1..Len(out) :
                  /\ pad_input # 0 => out[i] = before(i)
                  /\ pad_input = 0 =>
                        out[i] = before(i)
                                 - (kernel_size - 1) * Pow(kernel_size, layers[i].layer_i)
                  /\ out[i] <= before(i)
                  /\ pad_input # 0 => out[i] = L
            /\ (pad_input = 0 /\ Len(out) >= 1) =>
                  out[Len(out)] = L - receptive_field + 1

\* an unpadded stack of two blocks that leaves at least one timestep
C6_Witness ==
    /\ call.op = "all_output_lengths" /\ pad_input = 0 /\ kernel_size >= 2
    /\ Len(n_layers) = 2 /\ Len(layers) >= 3
    /\ call.lengths[Len(layers)] >= 1
    /\ call.lengths[Len(layers)] < call.lengths[1]

ShiftClauses(with_empty_stack) ==
    (pc = "built") =>
        /\ pad_input = 1 => shift = 1
        /\ pad_input = -1 => shift = receptive_field
        /\ (pad_input = 0 /\ (with_empty_stack \/ Len(layers) >= 1)) =>
              shift = receptive_field
        /\ (call.op = "all_output_lengths" /\ pad_input = 0 /\ Len(layers) >= 1) =>
              call.lengths[Len(layers)] = call.input_length - shift + 1

\* C8 as stated: shift is 1 for pad_input = 1 and equals receptive_field for
\* pad_input = -1 and for pad_input = 0; without padding the final output
\* length is input_length - shift + 1.
C8_ShiftEqualsReceptiveField == ShiftClauses(TRUE)

\* C8, amended: as stated, for pad_input = 0 on a stack of at least one layer.
C8_ShiftEqualsReceptiveFieldOfLayers == ShiftClauses(FALSE)

\* an unpadded stack of several layers
C8_Witness ==
    /\ call.op = "all_output_lengths" /\ pad_input = 0 /\ kernel_size >= 2
    /\ Len(layers) >= 2 /\ shift = receptive_field /\ shift > kernel_size
    /\ call.lengths[Len(layers)] >= 1

\* C10: without padding, wherever the dilated convolution is valid, the slice
\* of the input added to the residual output is as long as the convolution
\* output, L - (kernel_size - 1) * dilation.
C10_ResidualSliceMatchesConv ==
    (/\ call.op = "forward"
     /\ pad_input = 0
     /\ call.x_len > (kernel_size - 1) * Pow(kernel_size, layers[call.layer].layer_i)) =>
        /\ call.conv_valid
        /\ call.y_len
             = call.x_len - (kernel_size - 1) * Pow(kernel_size, layers[call.layer].layer_i)
        /\ call.slc_len = call.y_len

=============================================================================
